---------------------------- MODULE Spec2Model ----------------------------
(***************************************************************************)
(* Model of the Telco churn ETL pipeline (scripts/transform.py,           *)
(* scripts/load.py, scripts/validation.py).                                *)
(*                                                                         *)
(* Files and tables are values: a file is a record [exists, columns,      *)
(* rows]; a row is a function from column names to cell values.  Only the  *)
(* columns whose cells some modelled code inspects carry cells (CellCols); *)
(* the other columns are present by name in "columns".                     *)
(*                                                                         *)
(* Units: tenure is held in tenths of a month (12 months = 120), so that   *)
(* the bin edge -0.1 of transform.py and the half-month medians are        *)
(* integers; charges are held in half-cents (30.00 = 6000) so that the     *)
(* median of two cent amounts is an integer.                               *)
(***************************************************************************)
EXTENDS Integers, Sequences, FiniteSets, TLC

VARIABLES
    url_env,        \* os.getenv("SUPABASE_URL"): "None", "" or a value
    key_env,        \* os.getenv("SUPABASE_KEY")
    raw,            \* data/raw/churn_raw.csv
    staged,         \* data/staged/churn_transformed.csv
    remote,         \* rows of the remote table telco_churn, in insertion order
    pc,             \* position of the one running entry point ("idle": none)
    runs,           \* number of load runs started so far
    df,             \* load_to_supabase: df
    total_rows,     \* load_to_supabase: total_rows
    i,              \* load_to_supabase: loop variable i
    batch,          \* load_to_supabase: batch (label, row) pairs
    records,        \* load_to_supabase: records
    batch_number,   \* load_to_supabase: batch_number
    attempt,        \* load_to_supabase: attempt
    waited,         \* seconds slept by time.sleep for the current batch
    events,         \* insert calls and sleeps for the current batch, in order
    done,           \* per batch the run is through with: did it go in
    insert_calls,   \* number of insert calls of the current load run
    slices,         \* start and length of the batches the current load run has built
    count0,         \* row count of the remote table when the current load run began
    outcome,        \* how the last load run ended
    run_log,        \* one entry per finished load run: was a batch skipped, how many went in
    checks,         \* validate: checks
    raw_unique,     \* validate: raw_unique
    transformed_rows, \* validate: transformed_rows
    supabase_count, \* validate: supabase_count
    query,          \* validate: how the count query went
    all_ok          \* validate: all_ok after the summary loop ("unset" before)

vars == <<url_env, key_env, raw, staged, remote, pc, runs, df, total_rows, i,
          batch, records, batch_number, attempt, waited, events,
          done, insert_calls, slices, count0, outcome, run_log, checks, raw_unique,
          transformed_rows, supabase_count, query, all_ok>>

loadLocals == <<df, total_rows, i, batch, records, batch_number, attempt>>
loadHist == <<events, done, insert_calls, slices, count0, outcome, run_log, waited, runs>>
valLocals == <<checks, raw_unique, transformed_rows, supabase_count, query, all_ok>>
files == <<raw, staged>>
env == <<url_env, key_env>>

----------------------------------------------------------------------------
(* Program constants *)

BATCH_SIZE == 200
MAX_RETRIES == 3

(* pandas NaN and Python None in a numeric cell; "NaN" and "None" in a text cell *)
NaN == -1000000
None == -1000001

(* Bounds of the model *)
MaxRows == 450
MaxRuns == 2

RequiredCols ==
    {"tenure", "MonthlyCharges", "TotalCharges", "Churn", "InternetService",
     "Contract", "PaymentMethod", "tenure_group", "monthly_charge_segment",
     "has_internet_service", "is_multi_line_user", "contract_type_code"}

NumericCols == {"tenure", "MonthlyCharges", "TotalCharges", "contract_type_code"}

(* The columns whose cells are represented *)
CellCols ==
    {"tenure", "MonthlyCharges", "TotalCharges", "tenure_group",
     "monthly_charge_segment", "contract_type_code", "customerID", "Contract"}

Min(a, b) == IF a <= b THEN a ELSE b

NaNOf(c) == IF c \in NumericCols THEN NaN ELSE "NaN"
NoneOf(c) == IF c \in NumericCols THEN None ELSE "None"

(* pd.isna / pd.notnull on a cell *)
IsNull(c, v) == v = NaNOf(c) \/ v = NoneOf(c)

NoFile == [exists |-> FALSE, columns |-> {}, rows |-> <<>>]
NoFrame == [columns |-> {}, rows |-> <<>>]

(* pd.read_csv: an empty cell of the file, held in the file value as NaN,
   is read as NaN *)
ReadCsv(f) == [columns |-> f.columns, rows |-> f.rows]

(* df[cols] *)
Project(d, cols) ==
    [columns |-> cols,
     rows |-> [p \in 1..Len(d.rows) |->
                 [c \in (DOMAIN d.rows[p]) \cap cols |-> d.rows[p][c]]]]

(* mutant: only an unset variable counts as absent *)
Falsy_NoneOnly(v) == v = "None"

(* not url: None and the empty string are falsy *)
Falsy(v) == v \in {"None", ""}

(* get_supabase_client raises ValueError *)
ClientRaises == Falsy(url_env) \/ Falsy(key_env)

(* mutant: the slice stops one row early *)
Iloc_OffByOne(d, lo, hi) ==
    [p \in 1..(Min(hi - 1, Len(d.rows)) - lo) |->
        [label |-> lo + p - 1, row |-> d.rows[lo + p]]]

(* df.iloc[lo:hi]: positions lo..hi-1 (0-based), clipped to the frame *)
Iloc(d, lo, hi) ==
    [p \in 1..(Min(hi, Len(d.rows)) - lo) |->
        [label |-> lo + p - 1, row |-> d.rows[lo + p]]]

(* batch.where(pd.notnull(batch), None).to_dict('records') *)
ToRecords(b) ==
    [p \in 1..Len(b) |->
        [c \in DOMAIN b[p].row |->
            IF IsNull(c, b[p].row[c]) THEN NoneOf(c) ELSE b[p].row[c]]]

InsertEvent(ok) ==
    [kind |-> "insert", batch |-> batch_number, attempt |-> attempt,
     ok |-> ok, wait |-> 0, size |-> Len(records)]

SleepEvent(seconds) ==
    [kind |-> "sleep", batch |-> batch_number, attempt |-> attempt,
     ok |-> FALSE, wait |-> seconds, size |-> 0]

----------------------------------------------------------------------------
(* load.py *)

ResetLoadLocals ==
    /\ df' = NoFrame
    /\ total_rows' = 0
    /\ i' = 0
    /\ batch' = <<>>
    /\ records' = <<>>
    /\ batch_number' = 0
    /\ attempt' = 0

(* the report of an earlier validate run is gone when another entry point starts *)
ResetValLocals ==
    /\ checks' = <<>>
    /\ raw_unique' = 0
    /\ transformed_rows' = 0
    /\ supabase_count' = None
    /\ query' = "none"
    /\ all_ok' = "unset"

(* python load.py: __main__ starts *)
LoadMain ==
    /\ pc = "idle"
    /\ runs < MaxRuns
    /\ pc' = "create_table"
    /\ runs' = runs + 1
    /\ events' = <<>>
    /\ done' = <<>>
    /\ insert_calls' = 0
    /\ slices' = <<>>
    /\ count0' = Len(remote)
    /\ outcome' = "running"
    /\ ResetValLocals
    /\ UNCHANGED <<env, files, remote, loadLocals, waited, run_log>>

(* create_table_if_not_exists: every failure is caught and printed; rows are
   not touched *)
CreateTable ==
    /\ pc = "create_table"
    /\ pc' = "load_start"
    /\ UNCHANGED <<env, files, remote, loadLocals, loadHist, valLocals>>

LoadReturn(how) ==
    /\ pc' = "idle"
    /\ outcome' = how
    /\ ResetLoadLocals

LoadEnter ==
    /\ df' = Project(ReadCsv(staged), RequiredCols)
    /\ total_rows' = Len(Project(ReadCsv(staged), RequiredCols).rows)
    /\ i' = 0
    /\ pc' = "for"
    /\ UNCHANGED <<batch, records, batch_number, attempt, outcome>>

(* mutant: the required columns are not checked *)
LoadStart_NoColumnCheck ==
    /\ pc = "load_start"
    /\ IF ~staged.exists
         THEN LoadReturn("file_not_found")
         ELSE IF ClientRaises
         THEN LoadReturn("error")
         ELSE LoadEnter
    /\ UNCHANGED <<env, files, remote, events, done, insert_calls, slices,
                   count0, run_log, waited, runs, valLocals>>

(* load_to_supabase up to the batch loop: the file must exist, the client
   must be made, the required columns must all be there *)
LoadStart ==
    /\ pc = "load_start"
    /\ IF ~staged.exists
         THEN LoadReturn("file_not_found")
         ELSE IF ClientRaises
         THEN LoadReturn("error")
         ELSE IF RequiredCols \ ReadCsv(staged).columns # {}
         THEN LoadReturn("missing_columns")
         ELSE LoadEnter
    /\ UNCHANGED <<env, files, remote, events, done, insert_calls, slices,
                   count0, run_log, waited, runs, valLocals>>

(* for i in range(0, total_rows, BATCH_SIZE): one more batch *)
ForNext ==
    /\ pc = "for"
    /\ i < total_rows
    /\ batch' = Iloc(df, i, i + BATCH_SIZE)
    /\ records' = ToRecords(Iloc(df, i, i + BATCH_SIZE))
    /\ batch_number' = (i \div BATCH_SIZE) + 1
    /\ attempt' = 1
    /\ slices' = Append(slices, [lo |-> i, n |-> Len(Iloc(df, i, i + BATCH_SIZE))])
    /\ events' = <<>>
    /\ waited' = 0
    /\ pc' = "try"
    /\ UNCHANGED <<env, files, remote, df, total_rows, i, done,
                   insert_calls, count0, outcome, run_log, runs, valLocals>>

(* the loop is exhausted: "Finished loading data" *)
ForDone ==
    /\ pc = "for"
    /\ i >= total_rows
    /\ run_log' = Append(run_log,
          [skipped |-> \E b \in 1..Len(done) : ~done[b],
           inserted |-> Cardinality({b \in 1..Len(done) : done[b]})])
    /\ LoadReturn("finished")
    /\ events' = <<>>
    /\ done' = <<>>
    /\ insert_calls' = 0
    /\ slices' = <<>>
    /\ count0' = 0
    /\ waited' = 0
    /\ UNCHANGED <<env, files, remote, runs, valLocals>>

(* mutant: a successful insert does not leave the retry loop *)
InsertOk_NoBreak ==
    /\ pc = "try"
    /\ attempt <= MAX_RETRIES
    /\ remote' = remote \o records
    /\ events' = Append(events, InsertEvent(TRUE))
    /\ insert_calls' = insert_calls + 1
    /\ pc' = "try"
    /\ UNCHANGED <<env, files, df, total_rows, i, batch, records, batch_number,
                   attempt, done, slices, count0, outcome, run_log,
                   waited, runs, valLocals>>

(* supabase.table(table_name).insert(records).execute() succeeds: the rows are
   appended and the retry loop is left *)
InsertOk ==
    /\ pc = "try"
    /\ attempt <= MAX_RETRIES
    /\ remote' = remote \o records
    /\ events' = Append(events, InsertEvent(TRUE))
    /\ insert_calls' = insert_calls + 1
    /\ done' = Append(done, TRUE)
    /\ i' = i + BATCH_SIZE
    /\ pc' = "for"
    /\ UNCHANGED <<env, files, df, total_rows, batch, records, batch_number,
                   attempt, slices, count0, outcome, run_log,
                   waited, runs, valLocals>>

(* the except branch when the insert raised: the batch is skipped on the last
   attempt; else the loader sleeps "seconds" and the attempt number goes up *)
Except(seconds, next_i, give_up) ==
    /\ insert_calls' = insert_calls + 1
    /\ IF give_up
         THEN /\ events' = Append(events, InsertEvent(FALSE))
              /\ done' = Append(done, FALSE)
              /\ i' = next_i
              /\ pc' = "for"
              /\ UNCHANGED <<waited, attempt>>
         ELSE /\ events' = events \o <<InsertEvent(FALSE), SleepEvent(seconds)>>
              /\ waited' = waited + seconds
              /\ attempt' = attempt + 1
              /\ pc' = "try"
              /\ UNCHANGED <<i, done>>
    /\ UNCHANGED <<env, files, remote, df, total_rows, batch, records,
                   batch_number, slices, count0, outcome, run_log, runs,
                   valLocals>>

(* mutant: the last failed attempt gives up the whole run *)
InsertFail_Abort ==
    /\ pc = "try"
    /\ attempt <= MAX_RETRIES
    /\ Except(2 * attempt, total_rows, attempt = MAX_RETRIES)

(* mutant: the wait does not grow with the attempt *)
InsertFail_ConstWait ==
    /\ pc = "try"
    /\ attempt <= MAX_RETRIES
    /\ Except(2, i + BATCH_SIZE, attempt = MAX_RETRIES)

(* mutant: one attempt more than MAX_RETRIES *)
InsertFail_OneMore ==
    /\ pc = "try"
    /\ attempt <= MAX_RETRIES + 1
    /\ Except(2 * attempt, i + BATCH_SIZE, attempt = MAX_RETRIES + 1)

(* the insert raises (or the response carries an error) *)
InsertFail ==
    /\ pc = "try"
    /\ attempt <= MAX_RETRIES
    /\ Except(2 * attempt, i + BATCH_SIZE, attempt = MAX_RETRIES)

----------------------------------------------------------------------------
(* validation.py *)

(* df[col].isna().sum() *)
IsnaSum(d, c) == Cardinality({p \in 1..Len(d.rows) : IsNull(c, d.rows[p][c])})

(* set(df[col].dropna().unique()) *)
DropnaUnique(d, c) == {d.rows[p][c] : p \in {q \in 1..Len(d.rows) : ~IsNull(c, d.rows[q][c])}}

Check(name, ok) == [name |-> name, ok |-> ok]

NumericChecked == <<"tenure", "MonthlyCharges", "TotalCharges">>

(* 1) no missing values in tenure, MonthlyCharges, TotalCharges *)
NoMissingNumeric(d) ==
    \A k \in 1..Len(NumericChecked) :
        NumericChecked[k] \in d.columns => IsnaSum(d, NumericChecked[k]) = 0

(* raw_df["customerID"].nunique() if the column is there, else len(raw_df) *)
RawUnique(r) ==
    IF "customerID" \in r.columns
      THEN Cardinality(DropnaUnique(r, "customerID"))
      ELSE Len(r.rows)

(* python validation.py: validate() through checks 1 and 2; it returns at
   once when the raw or the staged file is missing *)
ValidateMain ==
    /\ pc = "idle"
    /\ IF raw.exists /\ staged.exists
         THEN /\ raw_unique' = RawUnique(ReadCsv(raw))
              /\ transformed_rows' = Len(ReadCsv(staged).rows)
              /\ checks' =
                    <<Check("no_missing_numeric", NoMissingNumeric(ReadCsv(staged))),
                      Check("unique_match",
                            Len(ReadCsv(staged).rows) = RawUnique(ReadCsv(raw)))>>
              /\ pc' = "check3"
         ELSE /\ raw_unique' = 0
              /\ transformed_rows' = 0
              /\ checks' = <<>>
              /\ pc' = "idle"
    /\ supabase_count' = None
    /\ query' = "none"
    /\ all_ok' = "unset"
    /\ UNCHANGED <<env, files, remote, loadLocals, loadHist>>

(* mutant: the count of the response is never used *)
RowCount_Fallback(how) == Min(1, Len(remote))

(* get_supabase_row_count when the query returns: response.count, or the
   fallback len(response.data) of a select limited to one row *)
RowCount(how) ==
    IF how = "count" THEN Len(remote) ELSE Min(1, Len(remote))

(* mutant: an exception of the count query ends the run *)
Check3_Abort ==
    /\ pc = "check3"
    /\ \E how \in {"raises", "count", "no_count"} :
         /\ ClientRaises => how = "raises"
         /\ query' = how
         /\ supabase_count' = IF how = "raises" THEN None ELSE RowCount(how)
         /\ checks' = IF how = "raises" THEN checks
                      ELSE Append(checks, Check("supabase_ok",
                                           RowCount(how) = transformed_rows))
         /\ pc' = IF how = "raises" THEN "idle" ELSE "check4"
    /\ UNCHANGED <<raw_unique, transformed_rows, all_ok>>
    /\ UNCHANGED <<env, files, remote, loadLocals, loadHist>>

(* 3) row count matches the remote table; any exception of the client or of
   the query fails the check *)
Check3 ==
    /\ pc = "check3"
    /\ \E how \in {"raises", "count", "no_count"} :
         /\ ClientRaises => how = "raises"
         /\ query' = how
         /\ supabase_count' = IF how = "raises" THEN None ELSE RowCount(how)
         /\ checks' = Append(checks, Check("supabase_ok",
                          how # "raises" /\ RowCount(how) = transformed_rows))
    /\ pc' = "check4"
    /\ UNCHANGED <<raw_unique, transformed_rows, all_ok>>
    /\ UNCHANGED <<env, files, remote, loadLocals, loadHist>>

ActualValues(d, c) == IF c \in d.columns THEN DropnaUnique(d, c) ELSE {}

expected_tenure_groups == {"New", "Regular", "Loyal", "Champion"}
expected_charge_segments == {"Low", "Medium", "High"}
allowed_codes == {0, 1, 2}

(* 4) all tenure_group segments exist *)
TenureSegmentsOk(d) ==
    expected_tenure_groups \subseteq ActualValues(d, "tenure_group")

(* 5) all monthly_charge_segment segments exist *)
ChargeSegmentsOk(d) ==
    expected_charge_segments \subseteq ActualValues(d, "monthly_charge_segment")

(* 6) contract codes are only {0,1,2} *)
ContractCodesOk(d) ==
    /\ ActualValues(d, "contract_type_code") \subseteq allowed_codes
    /\ Cardinality(ActualValues(d, "contract_type_code")) > 0

(* the summary loop: all_ok starts True and is cleared by every failed check *)
AllOk(cs) == \A k \in 1..Len(cs) : cs[k].ok

(* checks 4, 5 and 6 and the summary *)
ValidateRest ==
    /\ pc = "check4"
    /\ LET all == checks \o
                   <<Check("tenure_segments_ok", TenureSegmentsOk(ReadCsv(staged))),
                     Check("charge_segments_ok", ChargeSegmentsOk(ReadCsv(staged))),
                     Check("contract_codes_ok", ContractCodesOk(ReadCsv(staged)))>>
       IN  /\ checks' = all
           /\ all_ok' = IF AllOk(all) THEN "pass" ELSE "fail"
    /\ pc' = "idle"
    /\ UNCHANGED <<raw_unique, transformed_rows, supabase_count, query>>
    /\ UNCHANGED <<env, files, remote, loadLocals, loadHist>>

----------------------------------------------------------------------------
(* transform.py *)

(* raw text of TotalCharges that is not a number (blank) *)
Blank == -1000002

(* pd.to_numeric(errors="coerce") on a cell *)
ToNumeric(v) == IF v = Blank THEN NaN ELSE v

(* the values of a column that are not missing, with their positions *)
Present(col) == {p \in 1..Len(col) : col[p] # NaN}

(* the k-th smallest of the present values of a column *)
KthSmallest(col, k) ==
    CHOOSE v \in {col[p] : p \in Present(col)} :
        /\ Cardinality({p \in Present(col) : col[p] < v}) < k
        /\ Cardinality({p \in Present(col) : col[p] <= v}) >= k

(* Series.median(): NaN are skipped; NaN when nothing is left.  The cells
   are even multiples of the unit, so the mean of two of them is exact. *)
Median(col) ==
    LET n == Cardinality(Present(col))
    IN  IF n = 0 THEN NaN
        ELSE IF n % 2 = 1 THEN KthSmallest(col, (n + 1) \div 2)
        ELSE (KthSmallest(col, n \div 2) + KthSmallest(col, (n \div 2) + 1)) \div 2

(* Series.fillna(value) on a cell *)
FillNa(v, value) == IF v = NaN THEN value ELSE v

(* bins=[-0.1, 12, 36, 60, inf] in tenths of a month; the last edge is inf *)
TenureBins == <<-1, 120, 360, 600>>
TenureLabels == <<"New", "Regular", "Loyal", "Champion">>

(* bins.searchsorted(x, side="left"): how many edges lie strictly below x;
   no finite x lies above the edge inf *)
SearchSortedLeft(x) == Cardinality({b \in 1..Len(TenureBins) : TenureBins[b] < x})

(* mutant: the bins are closed on the left (right=False) *)
TenureGroup_LeftClosed(x) ==
    LET ids == Cardinality({b \in 1..Len(TenureBins) : TenureBins[b] <= x})
    IN  IF x = NaN \/ ids = 0 THEN "NaN" ELSE TenureLabels[ids]

(* pd.cut(..., include_lowest=True, right=True) on a cell *)
TenureGroup(x) ==
    LET ids == IF x = TenureBins[1] THEN 1 ELSE SearchSortedLeft(x)
    IN  IF x = NaN \/ ids = 0 THEN "NaN" ELSE TenureLabels[ids]

(* np.select([mc < 30, (mc >= 30) & (mc <= 70), mc > 70], ..., "Unknown");
   a comparison with NaN is False *)
ChargeSegment(mc) ==
    IF mc = NaN THEN "Unknown"
    ELSE IF mc < 6000 THEN "Low"
    ELSE IF mc >= 6000 /\ mc <= 14000 THEN "Medium"
    ELSE IF mc > 14000 THEN "High"
    ELSE "Unknown"

(* df["Contract"].map({...}).astype("Int64") *)
ContractTypeCode(c) ==
    IF c = "Month-to-month" THEN 0
    ELSE IF c = "One year" THEN 1
    ELSE IF c = "Two year" THEN 2
    ELSE NaN

RawCols ==
    {"customerID", "gender", "SeniorCitizen", "tenure", "MultipleLines",
     "InternetService", "Contract", "PaymentMethod", "MonthlyCharges",
     "TotalCharges", "Churn"}

DerivedCols ==
    {"tenure_group", "monthly_charge_segment", "has_internet_service",
     "is_multi_line_user", "contract_type_code"}

Column(d, c) == [p \in 1..Len(d.rows) |-> d.rows[p][c]]

(* the frame transform_data writes, from the frame it read *)
TransformFrame(d) ==
    LET tc == [p \in 1..Len(d.rows) |-> ToNumeric(d.rows[p]["TotalCharges"])]
        mTenure == Median(Column(d, "tenure"))
        mMonthly == Median(Column(d, "MonthlyCharges"))
        mTotal == Median(tc)
        tenureF(p) == FillNa(d.rows[p]["tenure"], mTenure)
        monthlyF(p) == FillNa(d.rows[p]["MonthlyCharges"], mMonthly)
        contractF(p) == IF d.rows[p]["Contract"] = "NaN" THEN "Unknown"
                        ELSE d.rows[p]["Contract"]
    IN  [columns |-> (d.columns \ {"customerID", "gender"}) \cup DerivedCols,
         rows |-> [p \in 1..Len(d.rows) |->
            [tenure |-> tenureF(p),
             MonthlyCharges |-> monthlyF(p),
             TotalCharges |-> FillNa(tc[p], mTotal),
             Contract |-> contractF(p),
             tenure_group |-> TenureGroup(tenureF(p)),
             monthly_charge_segment |-> ChargeSegment(monthlyF(p)),
             contract_type_code |-> ContractTypeCode(contractF(p))]]]

(* df.to_csv(path, index=False): a missing cell (NaN, None, <NA>) is written
   as an empty cell *)
ToCsv(d) ==
    [exists |-> TRUE,
     columns |-> d.columns,
     rows |-> [p \in 1..Len(d.rows) |->
                 [c \in DOMAIN d.rows[p] |->
                    IF IsNull(c, d.rows[p][c]) THEN NaNOf(c) ELSE d.rows[p][c]]]]

(* python transform.py: FileNotFoundError when the raw file is missing,
   else the staged file is overwritten *)
TransformData ==
    /\ pc = "idle"
    /\ staged' = IF raw.exists THEN ToCsv(TransformFrame(ReadCsv(raw))) ELSE staged
    /\ UNCHANGED <<env, raw, remote, pc, loadLocals, loadHist, valLocals>>


----------------------------------------------------------------------------
(* Initial states *)

MaxValRows == 4
MaxRawRows == 2
MaxTenure == 62
NegTenure == 2

EnvValues == {"None", "", "set"}

(* f without column c *)
DropColumn(f, c) ==
    [exists |-> f.exists,
     columns |-> f.columns \ {c},
     rows |-> [p \in 1..Len(f.rows) |->
                 [k \in (DOMAIN f.rows[p]) \ {c} |-> f.rows[p][k]]]]

Contracts == <<"Month-to-month", "One year", "Two year", "Other", "NaN">>

(* the k-th customer of a large raw file *)
LoadRawRow(k) ==
    [customerID |-> ToString(k),
     tenure |-> 10 * (k % 73),
     MonthlyCharges |-> IF k % 17 = 0 THEN NaN ELSE 200 * (18 + ((7 * k) % 100)),
     TotalCharges |-> IF k % 11 = 0 THEN Blank ELSE 2000 * (k % 73),
     Contract |-> Contracts[(k % 5) + 1]]

LoadRaw(n) ==
    [exists |-> TRUE, columns |-> RawCols, rows |-> [k \in 1..n |-> LoadRawRow(k)]]

(* row counts around the multiples of the batch size *)
RowCounts ==
    {n \in 0..MaxRows : n % BATCH_SIZE \in {0, 50}} \cup {1, BATCH_SIZE + 1}

StagedOf(r) == ToCsv(TransformFrame(ReadCsv(r)))

InitLocals ==
    /\ pc = "idle"
    /\ runs = 0
    /\ df = NoFrame
    /\ total_rows = 0
    /\ i = 0
    /\ batch = <<>>
    /\ records = <<>>
    /\ batch_number = 0
    /\ attempt = 0
    /\ waited = 0
    /\ events = <<>>
    /\ done = <<>>
    /\ insert_calls = 0
    /\ slices = <<>>
    /\ count0 = 0
    /\ outcome = "none"
    /\ run_log = <<>>
    /\ checks = <<>>
    /\ raw_unique = 0
    /\ transformed_rows = 0
    /\ supabase_count = None
    /\ query = "none"
    /\ all_ok = "unset"

(* load and validate over a staged file of up to MaxRows rows and an empty
   remote table *)
Init ==
    /\ url_env \in EnvValues
    /\ key_env \in EnvValues
    /\ \E n \in RowCounts :
         /\ raw = LoadRaw(n)
         /\ \/ staged = StagedOf(LoadRaw(n))
            \/ /\ ~ClientRaises
               /\ staged \in {NoFile} \cup {DropColumn(StagedOf(LoadRaw(n)), c) : c \in RequiredCols}
    /\ remote = <<>>
    /\ InitLocals

Next ==
    \/ LoadMain
    \/ CreateTable
    \/ LoadStart
    \/ ForNext
    \/ ForDone
    \/ InsertOk
    \/ InsertFail
    \/ ValidateMain
    \/ Check3
    \/ ValidateRest

Spec == Init /\ [][Next]_vars

(* the loader runs to its end: each step of a started run is eventually taken *)
LoadStep == CreateTable \/ LoadStart \/ ForNext \/ ForDone \/ InsertOk \/ InsertFail

FairSpec == Spec /\ WF_vars(LoadStep)

(* --- transform.py alone, over small raw files of every tenure --- *)

(* tenures from NegTenure months below zero to MaxTenure months, and a
   missing one *)
Tenures == {10 * m : m \in (0 - NegTenure)..MaxTenure} \cup {NaN}

(* the tenures of the rows before the last one *)
ContextTenures == {NaN, 120}

TransformRawRow(k, t) ==
    [customerID |-> ToString(k),
     tenure |-> t,
     MonthlyCharges |-> 2000 * (k + 1),
     TotalCharges |-> IF k % 2 = 0 THEN Blank ELSE 20000 * k,
     Contract |-> Contracts[(k % 5) + 1]]

TransformRaws ==
    {[exists |-> TRUE, columns |-> RawCols,
      rows |-> [k \in 1..(Len(ctx) + 1) |->
                  TransformRawRow(k, IF k <= Len(ctx) THEN ctx[k] ELSE t)]] :
        ctx \in UNION {[1..n -> ContextTenures] : n \in 0..(MaxRawRows - 1)},
        t \in Tenures}

InitTransform ==
    /\ url_env = "set"
    /\ key_env = "set"
    /\ raw \in TransformRaws \cup {NoFile}
    /\ staged = NoFile
    /\ remote = <<>>
    /\ InitLocals

NextTransform == TransformData

SpecTransform == InitTransform /\ [][NextTransform]_vars

(* --- validation.py alone, over small raw files --- *)

(* five kinds of customer: one per tenure group and charge segment, with a
   blank TotalCharges, an unmapped contract, and one with every cell missing *)
RawKinds ==
    <<[customerID |-> "a", tenure |-> 50, MonthlyCharges |-> 4000,
       TotalCharges |-> 20000, Contract |-> "Month-to-month"],
      [customerID |-> "b", tenure |-> 200, MonthlyCharges |-> 10000,
       TotalCharges |-> Blank, Contract |-> "One year"],
      [customerID |-> "c", tenure |-> 400, MonthlyCharges |-> 18000,
       TotalCharges |-> 720000, Contract |-> "Two year"],
      [customerID |-> "d", tenure |-> 700, MonthlyCharges |-> 4000,
       TotalCharges |-> 280000, Contract |-> "Other"],
      [customerID |-> "NaN", tenure |-> NaN, MonthlyCharges |-> NaN,
       TotalCharges |-> NaN, Contract |-> "NaN"]>>

ValidateRaws ==
    {[exists |-> TRUE, columns |-> RawCols,
      rows |-> [k \in 1..Len(ks) |-> RawKinds[ks[k]]]] :
        ks \in UNION {[1..n -> 1..Len(RawKinds)] : n \in 0..MaxValRows}}

(* f without its last row *)
DropLastRow(f) ==
    [exists |-> f.exists, columns |-> f.columns,
     rows |-> SubSeq(f.rows, 1, Len(f.rows) - 1)]

(* the remote table after n rows of the staged file went in *)
Loaded(f, n) ==
    ToRecords(Iloc(Project(ReadCsv(f), RequiredCols), 0, n))

(* validate over a raw file, a staged file that is the transform of it, a
   stale or a damaged one, and a remote table that holds all, none or all but
   one of the staged rows *)
InitValidate ==
    /\ \E r \in ValidateRaws :
         \/ /\ raw = r
            /\ staged = StagedOf(r)
            /\ url_env \in EnvValues
            /\ key_env \in EnvValues
            /\ remote \in {Loaded(staged, Len(staged.rows)), <<>>}
         \/ /\ raw \in {r, DropColumn(r, "customerID"), NoFile}
            /\ staged \in {StagedOf(r), StagedOf(DropLastRow(r)), NoFile,
                            DropColumn(StagedOf(r), "tenure_group")}
            /\ url_env = "set"
            /\ key_env = "set"
            /\ remote = Loaded(staged, Len(staged.rows) - 1)
    /\ InitLocals

NextValidate ==
    \/ ValidateMain
    \/ Check3
    \/ ValidateRest

SpecValidate == InitValidate /\ [][NextValidate]_vars


----------------------------------------------------------------------------
(* Properties of load_to_supabase.  events holds the insert calls and the
   sleeps made for the batch in hand; what is stated of it holds of every
   batch in its turn. *)

CeilDiv(n, b) == (n + b - 1) \div b

InLoop == pc \in {"for", "try"}

LoopExhausted == pc = "for" /\ i >= total_rows

IsInsert(e) == events[e].kind = "insert"
IsSleep(e) == events[e].kind = "sleep"

(* the positions in events of the insert calls *)
Inserts == {e \in 1..Len(events) : IsInsert(e)}

(* the batch in hand has had its last insert call *)
BatchOver == pc = "for" /\ batch_number > 0

(* C1: every batch is attempted at least once and at most MAX_RETRIES times;
   its attempts are numbered 1, 2, ... in order; attempt k+1 is made only
   when attempts 1..k all failed; no attempt follows a successful one, so a
   batch goes in at most once in a run *)
C1_RetryDiscipline ==
    InLoop =>
        /\ Cardinality(Inserts) <= MAX_RETRIES
        /\ \A e \in Inserts :
              /\ events[e].batch = batch_number
              /\ events[e].attempt = Cardinality({f \in Inserts : f <= e})
              /\ \A f \in Inserts : f < e => ~events[f].ok
        /\ Cardinality({e \in Inserts : events[e].ok}) <= 1
        /\ pc = "try" =>
              /\ \A e \in Inserts : ~events[e].ok
              /\ attempt = Cardinality(Inserts) + 1
              /\ Len(done) = batch_number - 1
        /\ BatchOver =>
              /\ Cardinality(Inserts) >= 1
              /\ Len(done) = batch_number
              /\ \E e \in Inserts :
                    /\ events[e].attempt = Cardinality(Inserts)
                    /\ events[e].ok = done[batch_number]
                    /\ events[e].ok \/ events[e].attempt = MAX_RETRIES
        /\ Len(slices) = batch_number

C1_Witness ==
    /\ BatchOver
    /\ batch_number = 2
    /\ done = <<TRUE, TRUE>>
    /\ Cardinality(Inserts) = MAX_RETRIES
    /\ \E e \in Inserts : events[e].ok /\ events[e].attempt = MAX_RETRIES

RECURSIVE OkSize(_)
(* the number of rows of the batches among the first k that went in *)
OkSize(k) ==
    IF k = 0 THEN 0
    ELSE OkSize(k - 1) + (IF done[k] THEN slices[k].n ELSE 0)

C2_Counts ==
    outcome = "running" =>
        /\ Len(remote) = count0 + OkSize(Len(done))
        /\ Len(remote) >= count0
        /\ LoopExhausted => Len(done) = CeilDiv(total_rows, BATCH_SIZE)
        /\ InLoop => Len(done) \in {Len(slices) - 1, Len(slices)}

(* the table only grows, by the records of the insert call at its end *)
C2_RowsStay ==
    /\ Len(remote') >= Len(remote)
    /\ SubSeq(remote', 1, Len(remote)) = remote
    /\ remote' # remote =>
          /\ pc = "try"
          /\ Len(records) = slices[Len(slices)].n
          /\ SubSeq(remote', Len(remote) + 1, Len(remote')) = records

(* C2: a batch whose MAX_RETRIES attempts all failed is skipped and the later
   batches are still attempted; the table keeps the rows it had and gains
   the records of the batches that went in, so that its row count is the
   count before the run plus the sizes of the successful batches and never
   decreases *)
C2_PartialSuccess == []C2_Counts /\ [][C2_RowsStay]_vars

C2_Witness ==
    /\ LoopExhausted
    /\ total_rows = 450
    /\ done = <<TRUE, FALSE, TRUE>>
    /\ count0 > 0
    /\ Len(remote) = count0 + 250

(* C3: the batches are consecutive slices of the frame: each is non-empty
   and of at most BATCH_SIZE rows, all but the last of exactly BATCH_SIZE;
   batch b starts where batch b-1 ended and its row p is row
   (b-1)*BATCH_SIZE + p of the frame, so that no row is in two batches and
   the batches in order spell the frame; when the loop is exhausted there
   are ceil(N/BATCH_SIZE) batches and they hold the N rows *)
C3_Partition ==
    InLoop =>
        /\ total_rows = Len(staged.rows)
        /\ \A b \in 1..Len(slices) :
              /\ slices[b].n >= 1
              /\ slices[b].n <= BATCH_SIZE
              /\ b < Len(slices) => slices[b].n = BATCH_SIZE
              /\ slices[b].lo = IF b = 1 THEN 0 ELSE slices[b - 1].lo + slices[b - 1].n
              /\ slices[b].lo + slices[b].n <= total_rows
        /\ batch_number > 0 =>
              /\ batch_number = Len(slices)
              /\ Len(batch) = slices[batch_number].n
              /\ Len(records) = Len(batch)
              /\ \A p \in 1..Len(batch) :
                    /\ batch[p].label = (batch_number - 1) * BATCH_SIZE + p - 1
                    /\ batch[p].row = df.rows[(batch_number - 1) * BATCH_SIZE + p]
        /\ LoopExhausted =>
              /\ Len(slices) = CeilDiv(total_rows, BATCH_SIZE)
              /\ total_rows > 0 =>
                    slices[Len(slices)].lo + slices[Len(slices)].n = total_rows

C3_Witness ==
    /\ LoopExhausted
    /\ total_rows = 450
    /\ Len(slices) = 3
    /\ slices[1].n = 200
    /\ slices[2].n = 200
    /\ slices[3].n = 50
    /\ Len(batch) = 50
    /\ batch[50].label = 449

(* C4: with a required column absent from the staged file no insert call is
   made and the table is left as it was, whatever the number of rows *)
C4_MissingColumnsAbort ==
    (staged.exists /\ RequiredCols \ staged.columns # {}) =>
        /\ ~InLoop
        /\ insert_calls = 0
        /\ events = <<>>
        /\ remote = <<>>
        /\ outcome \in {"none", "running", "missing_columns"}

C4_Witness ==
    /\ outcome = "missing_columns"
    /\ pc = "idle"
    /\ Len(staged.rows) > BATCH_SIZE
    /\ "contract_type_code" \notin staged.columns
    /\ remote = <<>>

(* C5: a sleep comes only right after a failed attempt a < MAX_RETRIES of the
   batch, lasts 2*a and is followed by attempt a+1 of the same batch; the
   first event of a batch is its first attempt and nothing follows a
   successful attempt or the last failed attempt, so that there is no sleep
   between batches; a batch whose attempts all failed has slept 2 + 4 = 6 *)
C5_Backoff ==
    InLoop =>
        /\ \A e \in 1..Len(events) :
              /\ IsSleep(e) =>
                    /\ e > 1
                    /\ IsInsert(e - 1)
                    /\ ~events[e - 1].ok
                    /\ events[e - 1].attempt = events[e].attempt
                    /\ events[e].batch = batch_number
                    /\ events[e].attempt < MAX_RETRIES
                    /\ events[e].wait = 2 * events[e].attempt
                    /\ e < Len(events) =>
                          /\ IsInsert(e + 1)
                          /\ events[e + 1].attempt = events[e].attempt + 1
              /\ IsInsert(e) =>
                    IF ~events[e].ok /\ events[e].attempt < MAX_RETRIES
                      THEN e < Len(events) /\ IsSleep(e + 1)
                      ELSE e = Len(events) /\ pc = "for"
        /\ events # <<>> => IsInsert(1) /\ events[1].attempt = 1
        /\ batch_number > 0 => waited = (attempt - 1) * attempt
        /\ (BatchOver /\ ~done[batch_number]) =>
              /\ waited = 6
              /\ Cardinality({e \in 1..Len(events) : IsSleep(e)}) = 2

C5_Witness ==
    /\ BatchOver
    /\ batch_number = 2
    /\ done = <<TRUE, FALSE>>
    /\ waited = 6
    /\ Cardinality(Inserts) = MAX_RETRIES

C9_Bounded ==
    InLoop =>
        /\ insert_calls <= MAX_RETRIES * CeilDiv(total_rows, BATCH_SIZE)
        /\ insert_calls <= MAX_RETRIES * Len(slices)
        /\ batch_number <= CeilDiv(total_rows, BATCH_SIZE)
        /\ Len(done) <= batch_number
        /\ pc = "try" => batch_number = Len(done) + 1

(* a new batch is taken up only when the one before it went in or failed its
   last attempt, and it is the next one *)
C9_InOrder ==
    (InLoop /\ batch_number' # batch_number /\ pc' = "try") =>
        /\ batch_number' = batch_number + 1
        /\ Len(done) = batch_number
        /\ batch_number > 0 =>
              \E e \in Inserts : events[e].ok \/ events[e].attempt = MAX_RETRIES

(* C9: a run that has entered the batch loop reaches "finished loading",
   whatever the insert calls answer; it makes at most
   MAX_RETRIES * ceil(N/BATCH_SIZE) insert calls, and the batches are taken in
   order: the first attempt of batch k+1 comes after batch k went in or
   failed its last attempt *)
C9_Terminates ==
    /\ []C9_Bounded
    /\ [][C9_InOrder]_vars
    /\ (pc = "for") ~> (pc = "idle" /\ outcome = "finished")

C9_Witness ==
    /\ pc = "idle"
    /\ outcome = "finished"
    /\ Len(staged.rows) = 450
    /\ run_log[Len(run_log)].inserted = 0
    /\ run_log[Len(run_log)].skipped

ConfigAbsent == url_env \in {"None", ""} \/ key_env \in {"None", ""}

(* C6 as stated: without the URL or the key nothing is done: no insert call
   is made and validate records no check *)
C6_Original ==
    ConfigAbsent =>
        /\ insert_calls = 0
        /\ remote = <<>>
        /\ ~InLoop
        /\ checks = <<>>
        /\ all_ok = "unset"

(* C6: without the URL or the key the loader ends in an error
   before any insert call and the table is unchanged; validate does not
   abort: the failed client creation is recorded as check 3 being false, all
   six checks are recorded and the overall result is fail *)
C6_ConfigAbsent ==
    ConfigAbsent =>
        /\ insert_calls = 0
        /\ events = <<>>
        /\ remote = <<>>
        /\ ~InLoop
        /\ outcome \in {"none", "running", "error"}
        /\ Len(checks) >= 3 =>
              /\ ~checks[3].ok
              /\ query = "raises"
              /\ supabase_count = None
        /\ all_ok # "pass"
        /\ (pc = "idle" /\ checks # <<>>) => (Len(checks) = 6 /\ all_ok = "fail")

C6_Witness ==
    /\ ConfigAbsent
    /\ outcome = "error"
    /\ pc = "idle"
    /\ Len(checks) = 6
    /\ checks[1].ok
    /\ ~checks[3].ok
    /\ all_ok = "fail"

(* n load runs have finished, validate has recorded check 3, the count query
   worked *)
Validated(n) ==
    /\ runs = n
    /\ Len(run_log) = n
    /\ Len(checks) >= 3
    /\ query = "count"

C10_OneRun == Validated(1) => (checks[3].ok <=> ~run_log[1].skipped)

(* C10 as stated: after one run check 3 passes exactly when no batch was
   skipped; after a second run in which a batch went in, check 3 fails *)
C10_Original ==
    /\ C10_OneRun
    /\ (Validated(2) /\ Len(staged.rows) > 0 /\ run_log[2].inserted > 0) => ~checks[3].ok

(* C10: after one run check 3 passes exactly when no batch was
   skipped; after a second run in which a batch went in, following a first
   run that skipped no batch, check 3 fails *)
C10_LoadThenValidate ==
    /\ C10_OneRun
    /\ (Validated(2) /\ Len(staged.rows) > 0 /\ ~run_log[1].skipped
            /\ run_log[2].inserted > 0) => ~checks[3].ok

C10_Witness ==
    /\ Validated(2)
    /\ Len(staged.rows) = 450
    /\ ~run_log[1].skipped
    /\ run_log[2].inserted = 1
    /\ ~checks[3].ok
    /\ supabase_count = 450 + 50


----------------------------------------------------------------------------
(* Properties of transform_data *)

(* the staged file was written from the raw file, row for row, and a tenure
   that is present in the raw file is kept *)
StagedFromRaw ==
    /\ staged.exists
    /\ Len(staged.rows) = Len(raw.rows)
    /\ \A p \in 1..Len(raw.rows) :
          raw.rows[p].tenure # NaN => staged.rows[p].tenure = raw.rows[p].tenure

(* the group the four intervals (-inf,12], (12,36], (36,60], (60,inf) give *)
GroupOfInterval(t) ==
    IF t <= 120 THEN "New"
    ELSE IF t <= 360 THEN "Regular"
    ELSE IF t <= 600 THEN "Loyal"
    ELSE "Champion"

(* C8 as stated: every tenure t of a staged record has the group of its
   interval, "New" for every t <= 12 months, zero and values below zero
   included, and no tenure is left without a group *)
C8_Original ==
    staged.exists =>
        /\ StagedFromRaw
        /\ \A p \in 1..Len(staged.rows) :
              staged.rows[p].tenure # NaN =>
                  /\ staged.rows[p].tenure_group # "NaN"
                  /\ staged.rows[p].tenure_group = GroupOfInterval(staged.rows[p].tenure)

(* C8: every tenure t of a staged record with t >= -0.1 month has the group
   of its interval: "New" for -0.1 <= t <= 12, "Regular" for 12 < t <= 36,
   "Loyal" for 36 < t <= 60, "Champion" for t > 60 (12 -> New, 13 -> Regular,
   36 -> Regular, 37 -> Loyal, 60 -> Loyal, 61 -> Champion); a tenure below
   -0.1 month is left without a group *)
C8_TenureGroup ==
    staged.exists =>
        /\ StagedFromRaw
        /\ \A p \in 1..Len(staged.rows) :
              LET t == staged.rows[p].tenure
                  g == staged.rows[p].tenure_group
              IN  t # NaN =>
                    /\ t >= -1 => g = GroupOfInterval(t)
                    /\ t < -1 => g = "NaN"
                    /\ t = 120 => g = "New"
                    /\ t = 130 => g = "Regular"
                    /\ t = 360 => g = "Regular"
                    /\ t = 370 => g = "Loyal"
                    /\ t = 600 => g = "Loyal"
                    /\ t = 610 => g = "Champion"

(* a staged file with a 12-month record in "New" and a record of tenure -1
   month without a group *)
C8_Witness ==
    /\ staged.exists
    /\ Len(staged.rows) = 2
    /\ staged.rows[1].tenure = 120
    /\ staged.rows[1].tenure_group = "New"
    /\ staged.rows[2].tenure = -10
    /\ staged.rows[2].tenure_group = "NaN"


----------------------------------------------------------------------------
(* Properties of validate *)

CheckNames ==
    <<"no_missing_numeric", "unique_match", "supabase_ok",
      "tenure_segments_ok", "charge_segments_ok", "contract_codes_ok">>

(* what checks 1, 2, 4, 5 and 6 say of the two files, the remote table left
   aside *)
FileCheck(k) ==
    CASE k = 1 ->
           \A c \in {"tenure", "MonthlyCharges", "TotalCharges"} \cap staged.columns :
               \A p \in 1..Len(staged.rows) : staged.rows[p][c] \notin {NaN, None}
      [] k = 2 ->
           Len(staged.rows) =
               IF "customerID" \in raw.columns
                 THEN Cardinality({raw.rows[p].customerID : p \in 1..Len(raw.rows)}
                                  \ {"NaN", "None"})
                 ELSE Len(raw.rows)
      [] k = 4 ->
           /\ "tenure_group" \in staged.columns
           /\ \A g \in {"New", "Regular", "Loyal", "Champion"} :
                 \E p \in 1..Len(staged.rows) : staged.rows[p].tenure_group = g
      [] k = 5 ->
           /\ "monthly_charge_segment" \in staged.columns
           /\ \A g \in {"Low", "Medium", "High"} :
                 \E p \in 1..Len(staged.rows) : staged.rows[p].monthly_charge_segment = g
      [] k = 6 ->
           /\ "contract_type_code" \in staged.columns
           /\ \E p \in 1..Len(staged.rows) : staged.rows[p].contract_type_code \in {0, 1, 2}
           /\ \A p \in 1..Len(staged.rows) :
                 staged.rows[p].contract_type_code \in {0, 1, 2, NaN, None}

(* the checks recorded so far are the first of the six, in their order, each
   with its own result; check 3 is false when the count query raised; the
   summary is pass exactly when all six are true *)
C7_Recorded ==
    /\ Len(checks) <= 6
    /\ \A k \in 1..Len(checks) : checks[k].name = CheckNames[k]
    /\ \A k \in (1..Len(checks)) \cap {1, 2, 4, 5, 6} : checks[k].ok = FileCheck(k)
    /\ Len(checks) >= 3 =>
          checks[3].ok = (query # "raises" /\ supabase_count = Len(staged.rows))
    /\ pc = "check3" => Len(checks) = 2
    /\ pc = "check4" => Len(checks) = 3
    /\ pc = "idle" => Len(checks) \in {0, 6}
    /\ (pc = "idle" /\ Len(checks) = 6) =>
          /\ all_ok \in {"pass", "fail"}
          /\ all_ok = "pass" <=> \A k \in 1..6 : checks[k].ok

(* a validate step with both files there goes on to the next check, whatever
   the checks before it said, and leaves their results alone *)
C7_Step ==
    /\ (pc = "idle" /\ raw.exists /\ staged.exists) =>
          (pc' = "check3" /\ Len(checks') = 2)
    /\ pc = "check3" =>
          (pc' = "check4" /\ Len(checks') = 3 /\ SubSeq(checks', 1, 2) = checks)
    /\ pc = "check4" =>
          (pc' = "idle" /\ Len(checks') = 6 /\ SubSeq(checks', 1, 3) = checks)

(* C7: with the raw and the staged file there, validate records all six
   checks once each in fixed order, no check depending on another's outcome;
   a count query that fails makes check 3 false without ending the run or
   touching checks 1, 2, 4, 5, 6; the overall result is pass exactly when
   all six recorded checks are true *)
C7_SixChecks == []C7_Recorded /\ [][C7_Step]_vars

(* a finished validation whose count query raised: check 3 is false, the
   other five passed on their own, the summary is fail *)
C7_Witness ==
    /\ pc = "idle"
    /\ Len(checks) = 6
    /\ query = "raises"
    /\ ~checks[3].ok
    /\ \A k \in {1, 2, 4, 5, 6} : checks[k].ok
    /\ all_ok = "fail"

=============================================================================
